---- MODULE Spec2Model ----
(***************************************************************************)
(* Event classification and job dispatch of packit (src/packit/jobs.py):   *)
(* the handler registry JOB_NAME_HANDLER_MAPPING, the three classifiers    *)
(* get_job_input_from_*, the router parse_event, the dispatcher            *)
(* process_jobs, the entry point process_message and the handlers' run().  *)
(*                                                                         *)
(* An event payload is a record of the fields the code reads; each field   *)
(* is either None (absent or falsy, what nested_get answers for a missing  *)
(* path) or a value.  Collaborators (GithubProject, PagureService,         *)
(* get_packit_config_from_repo, PackitAPI, DistGit) are nondeterministic:  *)
(* they answer or they fail.                                               *)
(***************************************************************************)
EXTENDS Naturals, Sequences, FiniteSets, TLC

VARIABLES
    dry_run,          \* SteveJobs.config.dry_run
    mapping,          \* JOB_NAME_HANDLER_MAPPING: JobType -> handler class name or None
    pending,          \* handler classes whose @add_to_mapping has not run yet
    github_service,   \* SteveJobs._github_service (None until first use)
    pagure_service,   \* SteveJobs._pagure_service (None until first use)
    pc,               \* position of the current process_message call
    event,            \* the payload of the current call
    topic,            \* the topic argument of the current call
    response,         \* what parse_event returned
    package_config,   \* the PackageConfig object shared by classifier, dispatcher, handlers
    jobIdx,           \* index of the declaration process_jobs is at
    handler,          \* the handler instance whose run() is executing
    classified,       \* classifiers entered during this call, in order
    fetched,          \* what get_packit_config_from_repo answered during this call, in order
    collab,           \* collaborator calls made during this call, in order
    invoked,          \* handler run() invocations of this call, in order
    returned,         \* how many of them have returned
    warned,           \* logger.warning records of add_to_mapping and process_jobs
    exc               \* the exception that left process_message, or None

vars == <<dry_run, mapping, pending, github_service, pagure_service, pc,
          event, topic, response, package_config, jobIdx, handler, classified,
          fetched, collab, invoked, returned, warned, exc>>

None == "None"

SeqsUpTo(S, n) == UNION {[1..k -> S] : k \in 0..n}

(***************************************************************************)
(* Enumerations of packit.config used by jobs.py                           *)
(***************************************************************************)
JobTriggerType == {"release", "pull_request", "commit"}

\* the job types jobs.py registers a handler for
HandledJobTypes == {"sync_from_downstream", "check_downstream",
                    "propose_downstream", "copr_build"}

\* JobType also has a member no handler of jobs.py is registered for
JobType == HandledJobTypes \cup {"build"}

(***************************************************************************)
(* Handler classes: name, triggers and (for fedmsg handlers) topic         *)
(***************************************************************************)
NewDistGitCommit ==
    [kls |-> "NewDistGitCommit", name |-> "sync_from_downstream",
     triggers |-> {"commit"}, topic |-> "org.fedoraproject.prod.git.receive"]

GithubPullRequestHandler ==
    [kls |-> "GithubPullRequestHandler", name |-> "check_downstream",
     triggers |-> {"pull_request"}, topic |-> None]

GithubReleaseHandler ==
    [kls |-> "GithubReleaseHandler", name |-> "propose_downstream",
     triggers |-> {"release"}, topic |-> None]

GithubCoprBuildHandler ==
    [kls |-> "GithubCoprBuildHandler", name |-> "copr_build",
     triggers |-> {"pull_request", "release"}, topic |-> None]

\* the classes decorated with @add_to_mapping, in the order the module loads them
DecoratedClasses ==
    <<NewDistGitCommit, GithubPullRequestHandler, GithubReleaseHandler,
      GithubCoprBuildHandler>>

\* further JobHandler subclasses a program may pass to add_to_mapping: one
\* more class per job type
OtherClasses ==
    {[kls |-> "Other_" \o j, name |-> j, triggers |-> {"commit"}, topic |-> None]
        : j \in JobType}

HandlerClasses == {DecoratedClasses[i] : i \in 1..Len(DecoratedClasses)} \cup OtherClasses

ClassNamed(k) == CHOOSE h \in HandlerClasses : h.kls = k

EmptyMapping == [j \in JobType |-> None]

\* JOB_NAME_HANDLER_MAPPING[kls.name] = kls
Registered(m, kls) == [m EXCEPT ![kls.name] = kls.kls]

MaxClasses == 3

(***************************************************************************)
(* Event payloads.  A field is None when the key is absent or its value is *)
(* falsy; the accessors below are the nested_get paths the code walks.     *)
(*   release       None | "untagged" (no tag_name) | "tagged"              *)
(*   repository    None | "id" (owner.login, name) | "url" (html_url)      *)
(*                 | "full" (all three)                                    *)
(*   pull_request  None | "nohead" (no head.repo identity)                 *)
(*                 | "noref" (no head.ref) | "full"                        *)
(*   msg           None | "nobranch" (commit without branch) | "full"      *)
(***************************************************************************)
GitReceiveTopic == NewDistGitCommit.topic

ReleaseActions == {"published"}
PullRequestActions == {"opened", "reopened", "synchronize"}
Actions == {None, "closed"} \cup ReleaseActions \cup PullRequestActions

NonEmptyEvents ==
    [empty : {FALSE},
     action : Actions,
     release : {None, "untagged", "tagged"},
     repository : {None, "id", "url", "full"},
     number : {None, "7"},
     pull_request : {None, "nohead", "noref", "full"},
     topic : {None, GitReceiveTopic},
     msg : {None, "nobranch", "full"}]

\* an empty payload ({} or None): parse_event's `if event:` is false
EmptyEvent ==
    [empty |-> TRUE, action |-> None, release |-> None, repository |-> None, number |-> None,
     pull_request |-> None, topic |-> None, msg |-> None]

Events == NonEmptyEvents \cup {EmptyEvent}

\* the topic argument of process_message: not given, empty, or a fedmsg topic
Topics == {None, "", GitReceiveTopic, "unrelated.topic"}

\* Python truthiness of an optional string
Truthy(v) == v \notin {None, ""}

\* nested_get(event, "repository", "owner", "login") and (..., "repository", "name")
RepoNamespace(e) == IF e.repository \in {"id", "full"} THEN "packit-service" ELSE None
RepoName(e) == IF e.repository \in {"id", "full"} THEN "packit" ELSE None
\* "html_url" in event["repository"]
HasHtmlUrl(e) == e.repository \in {"url", "full"}
HtmlUrl(e) == "https://github.com/packit-service/packit"
\* nested_get(event, "release", "tag_name")
TagName(e) == IF e.release = "tagged" THEN "0.1.0" ELSE None
\* nested_get(event, "pull_request", "head", "repo", "owner", "login") / "name"
HeadNamespace(e) == IF e.pull_request \in {"noref", "full"} THEN "contributor" ELSE None
HeadName(e) == IF e.pull_request \in {"noref", "full"} THEN "packit" ELSE None
\* nested_get(event, "pull_request", "head", "ref")
HeadRef(e) == IF e.pull_request = "full" THEN "feature" ELSE None
\* nested_get(event, "msg", "commit", "namespace") / "repo" / "branch"
CommitNamespace(e) == IF e.msg # None THEN "rpms" ELSE None
CommitRepo(e) == IF e.msg # None THEN "packit" ELSE None
CommitBranch(e) == IF e.msg = "full" THEN "f30" ELSE None

(***************************************************************************)
(* Project handles and project configuration                               *)
(***************************************************************************)
NoProject == [namespace |-> None, repo |-> None, service |-> None]
Project(ns, repo, svc) == [namespace |-> ns, repo |-> repo, service |-> svc]

JobConfigs == [job : JobType, trigger : JobTriggerType]

\* a PackageConfig object; NoneConfig stands for Python's None
NoneConfig == [is_none |-> TRUE, jobs |-> <<>>, upstream_project_url |-> None]
PackageConfig(jobs) == [is_none |-> FALSE, jobs |-> jobs, upstream_project_url |-> None]

MaxJobs == 3

\* the payloads of section 6, complete
ReleasePayload ==
    [empty |-> FALSE, action |-> "published", release |-> "tagged", repository |-> "full",
     number |-> None, pull_request |-> None, topic |-> None, msg |-> None]
PullRequestPayload ==
    [empty |-> FALSE, action |-> "synchronize", release |-> None, repository |-> "full",
     number |-> "7", pull_request |-> "full", topic |-> None, msg |-> None]
CommitPayload ==
    [empty |-> FALSE, action |-> None, release |-> None, repository |-> None,
     number |-> None, pull_request |-> None, topic |-> GitReceiveTopic, msg |-> "full"]
WellFormedPayloads == {ReleasePayload, PullRequestPayload, CommitPayload}

\* what get_packit_config_from_repo may answer for the project of event e: a
\* configuration, None (the repository has no packit configuration) or an
\* error.  Configurations with up to MaxJobs declarations are explored for
\* the well-formed payloads delivered under their own topic (none for a GitHub
\* webhook, the message's topic for a commit push), those with at most one
\* declaration for every other payload and delivery.
FetchOutcomes(e) ==
    {[failed |-> TRUE, config |-> NoneConfig], [failed |-> FALSE, config |-> NoneConfig]}
    \cup
    {[failed |-> FALSE, config |-> PackageConfig(js)] :
        js \in IF e \in WellFormedPayloads /\ topic = e.topic
               THEN SeqsUpTo(JobConfigs, MaxJobs)
               ELSE SeqsUpTo(JobConfigs, 1)}

(***************************************************************************)
(* State after `import packit.jobs` and SteveJobs(config)                  *)
(***************************************************************************)
NoResponse ==
    [is_none |-> TRUE, trigger |-> None, config |-> NoneConfig, project |-> NoProject]
Triple(trigger, config, project) ==
    [is_none |-> FALSE, trigger |-> trigger, config |-> config, project |-> project]

NoHandler == [kls |-> None, idx |-> 0, trigger |-> None, targets |-> None]

NoEvent == EmptyEvent

\* seeded fault: the result of the previous call is still there in the next
CallReset_KeepsResponse ==
    /\ event' = NoEvent
    /\ topic' = None
    /\ UNCHANGED <<response, package_config>>
    /\ jobIdx' = 0
    /\ handler' = NoHandler
    /\ classified' = <<>>
    /\ fetched' = <<>>
    /\ collab' = <<>>
    /\ invoked' = <<>>
    /\ returned' = 0
    /\ warned' = <<>>
    /\ exc' = None

\* the variables of one process_message call, before the call
CallReset ==
    /\ event' = NoEvent
    /\ topic' = None
    /\ response' = NoResponse
    /\ package_config' = NoneConfig
    /\ jobIdx' = 0
    /\ handler' = NoHandler
    /\ classified' = <<>>
    /\ fetched' = <<>>
    /\ collab' = <<>>
    /\ invoked' = <<>>
    /\ returned' = 0
    /\ warned' = <<>>
    /\ exc' = None

Init ==
    /\ dry_run = FALSE
    /\ mapping = EmptyMapping
    /\ pending = DecoratedClasses
    /\ github_service = None
    /\ pagure_service = None
    /\ pc = "load"
    /\ event = NoEvent
    /\ topic = None
    /\ response = NoResponse
    /\ package_config = NoneConfig
    /\ jobIdx = 0
    /\ handler = NoHandler
    /\ classified = <<>>
    /\ fetched = <<>>
    /\ collab = <<>>
    /\ invoked = <<>>
    /\ returned = 0
    /\ warned = <<>>
    /\ exc = None

configVars == <<dry_run>>
registryVars == <<mapping, pending>>
serviceVars == <<github_service, pagure_service>>
dispatchVars == <<jobIdx, handler, invoked, returned, warned>>
parseVars == <<classified, fetched>>

\* an exception leaves process_message
Raise(e) == pc' = "raised" /\ exc' = e

Call(op, project, ref) == [op |-> op, project |-> project, ref |-> ref]

(***************************************************************************)
(* Module load: each @add_to_mapping decorator runs once, in source order  *)
(***************************************************************************)
add_to_mapping ==
    /\ pc = "load"
    /\ pending # <<>>
    /\ mapping' = Registered(mapping, Head(pending))
    /\ pending' = Tail(pending)
    /\ UNCHANGED <<configVars, serviceVars, dispatchVars, pc, event, topic, response,
                   package_config, parseVars, collab, exc>>

\* the module is imported; SteveJobs(config) waits for messages
loaded ==
    /\ pc = "load"
    /\ pending = <<>>
    /\ pc' = "idle"
    /\ UNCHANGED <<configVars, registryVars, serviceVars, dispatchVars, event, topic, response,
                   package_config, parseVars, collab, exc>>

(***************************************************************************)
(* SteveJobs.github_service / pagure_service: created on first use         *)
(***************************************************************************)
\* a hosting-service object and its read_only flag
GithubService(read_only) ==
    IF read_only THEN "GithubService(read_only=True)" ELSE "GithubService(read_only=False)"
PagureService(read_only) ==
    IF read_only THEN "PagureService(read_only=True)" ELSE "PagureService(read_only=False)"
ReadOnly(service) ==
    service \in {"GithubService(read_only=True)", "PagureService(read_only=True)"}

\* lines 40-47 and 49-56: read_only=self.config.dry_run
GithubServiceProperty ==
    IF github_service = None THEN GithubService(dry_run) ELSE github_service
PagureServiceProperty ==
    IF pagure_service = None THEN PagureService(dry_run) ELSE pagure_service

(***************************************************************************)
(* process_message, lines 215-223: the topic pre-filter                    *)
(***************************************************************************)
\* [getattr(h, "topic", None) for h in JOB_NAME_HANDLER_MAPPING.values()]
RegisteredTopics(m) ==
    {ClassNamed(m[j]).topic : j \in {x \in JobType : m[x] # None}}

\* seeded fault: no message is dropped by its topic
Prefiltered_Never(t, m) == FALSE
\* `if topic: ... if topic not in topics: return`
Prefiltered(t, m) == Truthy(t) /\ t \notin RegisteredTopics(m)

process_message ==
    /\ pc = "idle"
    /\ \E e \in Events, t \in Topics :
        /\ event' = e
        /\ topic' = t
        /\ pc' = IF Prefiltered(t, mapping) THEN "done" ELSE "parse_event"
    /\ UNCHANGED <<configVars, registryVars, serviceVars, dispatchVars, response,
                   package_config, parseVars, collab, exc>>

(***************************************************************************)
(* parse_event and the classifiers                                         *)
(***************************************************************************)
\* lines 171-180: the classifier parse_event calls first, and the one it
\* calls after classifier c answered None ("respond": parse_event returns None)
\* (seeded fault FirstClassifier_PullRequest: the release classifier is skipped)
FirstClassifier_PullRequest == "pull_request"
FirstClassifier == "release"
NextClassifier(c) ==
    CASE c = "release" -> "pull_request"
      [] c = "pull_request" -> "commit"
      [] c = "commit" -> "respond"

\* line 166: `if event:`; an empty payload reaches no classifier
parse_event ==
    /\ pc = "parse_event"
    /\ pc' = IF event.empty THEN "respond" ELSE FirstClassifier
    /\ UNCHANGED <<configVars, registryVars, serviceVars, dispatchVars, event, topic, response,
                   package_config, parseVars, collab, exc>>

\* seeded fault: the action is not compared with "published"
ReleaseShape_AnyAction(e) == Truthy(e.release)
\* line 68
ReleaseShape(e) == e.action \in ReleaseActions /\ Truthy(e.release)
\* lines 71, 77
ReleaseFields(e) == Truthy(RepoNamespace(e)) /\ Truthy(RepoName(e)) /\ Truthy(TagName(e))
\* seeded fault: the pull-request action is not compared
PullRequestShape_AnyAction(e) == Truthy(e.pull_request) /\ Truthy(e.number)
\* lines 100, 103
PullRequestShape(e) ==
    Truthy(e.pull_request) /\ e.action \in PullRequestActions /\ Truthy(e.number)
\* lines 108, 114
PullRequestFields(e) ==
    Truthy(HeadNamespace(e)) /\ Truthy(HeadName(e)) /\ Truthy(HeadRef(e))
\* line 134
CommitShape(e) == e.topic = GitReceiveTopic
\* lines 138, 143
CommitFields(e) ==
    Truthy(CommitNamespace(e)) /\ Truthy(CommitRepo(e)) /\ Truthy(CommitBranch(e))

\* seeded fault: the assignment is skipped for None instead of raising
CanSetAttribute_Always(config) == TRUE
\* lines 88 and 124: `package_config.upstream_project_url = ...` raises
\* AttributeError when package_config is None
CanSetAttribute(config) == ~config.is_none

\* seeded fault: parse_event goes on to the next classifier after a match
GithubClassified_GoesOn(trigger, ns, name, ref) ==
    LET proj == Project(ns, name, "github") IN
    /\ github_service' = GithubServiceProperty
    /\ \E o \in FetchOutcomes(event) :
        /\ collab' = collab \o <<Call("GithubProject", proj, None),
                                 Call("get_packit_config_from_repo", proj, ref)>>
        /\ fetched' = Append(fetched, o)
        /\ IF o.failed
           THEN Raise("PackitConfigError") /\ UNCHANGED <<response, package_config>>
           ELSE IF ~HasHtmlUrl(event)
           THEN Raise("KeyError") /\ UNCHANGED <<response, package_config>>
           ELSE IF ~CanSetAttribute(o.config)
           THEN Raise("AttributeError") /\ UNCHANGED <<response, package_config>>
           ELSE LET cfg == [o.config EXCEPT !.upstream_project_url = HtmlUrl(event)] IN
                /\ package_config' = cfg
                /\ response' = Triple(trigger, cfg, proj)
                /\ pc' = NextClassifier(trigger)
                /\ UNCHANGED exc

\* lines 83-89 and 119-125: the project handle, the configuration fetch and the
\* enrichment with repository.html_url
GithubClassified(trigger, ns, name, ref) ==
    LET proj == Project(ns, name, "github") IN
    /\ github_service' = GithubServiceProperty
    /\ \E o \in FetchOutcomes(event) :
        /\ collab' = collab \o <<Call("GithubProject", proj, None),
                                 Call("get_packit_config_from_repo", proj, ref)>>
        /\ fetched' = Append(fetched, o)
        /\ IF o.failed
           THEN Raise("PackitConfigError") /\ UNCHANGED <<response, package_config>>
           ELSE IF ~HasHtmlUrl(event)
           THEN Raise("KeyError") /\ UNCHANGED <<response, package_config>>
           ELSE IF ~CanSetAttribute(o.config)
           THEN Raise("AttributeError") /\ UNCHANGED <<response, package_config>>
           ELSE LET cfg == [o.config EXCEPT !.upstream_project_url = HtmlUrl(event)] IN
                /\ package_config' = cfg
                /\ response' = Triple(trigger, cfg, proj)
                /\ pc' = "respond"
                /\ UNCHANGED exc

\* seeded fault: the configuration is fetched at the default ref, not at the tag
get_job_input_from_github_release_DefaultRef ==
    /\ pc = "release"
    /\ classified' = Append(classified, "release")
    /\ IF ReleaseShape(event) /\ ReleaseFields(event)
       THEN GithubClassified("release", RepoNamespace(event), RepoName(event), None)
       ELSE /\ pc' = NextClassifier("release")
            /\ UNCHANGED <<github_service, response, package_config, fetched, collab, exc>>
    /\ UNCHANGED <<configVars, registryVars, pagure_service, dispatchVars, event, topic>>

get_job_input_from_github_release ==
    /\ pc = "release"
    /\ classified' = Append(classified, "release")
    /\ IF ReleaseShape(event) /\ ReleaseFields(event)
       THEN GithubClassified("release", RepoNamespace(event), RepoName(event),
                             TagName(event))
       ELSE /\ pc' = NextClassifier("release")
            /\ UNCHANGED <<github_service, response, package_config, fetched, collab, exc>>
    /\ UNCHANGED <<configVars, registryVars, pagure_service, dispatchVars, event, topic>>

get_job_input_from_github_pr ==
    /\ pc = "pull_request"
    /\ classified' = Append(classified, "pull_request")
    /\ IF PullRequestShape(event) /\ PullRequestFields(event)
       THEN GithubClassified("pull_request", HeadNamespace(event), HeadName(event),
                             HeadRef(event))
       ELSE /\ pc' = NextClassifier("pull_request")
            /\ UNCHANGED <<github_service, response, package_config, fetched, collab, exc>>
    /\ UNCHANGED <<configVars, registryVars, pagure_service, dispatchVars, event, topic>>

\* lines 151-155: the dist-git project and its configuration, returned as fetched
get_job_input_from_dist_git_commit ==
    /\ pc = "commit"
    /\ classified' = Append(classified, "commit")
    /\ IF CommitShape(event) /\ CommitFields(event)
       THEN LET proj == Project(CommitNamespace(event), CommitRepo(event), "pagure") IN
            /\ pagure_service' = PagureServiceProperty
            /\ \E o \in FetchOutcomes(event) :
                /\ collab' = collab \o
                       <<Call("PagureService.get_project", proj, None),
                         Call("get_packit_config_from_repo", proj, CommitBranch(event))>>
                /\ fetched' = Append(fetched, o)
                /\ IF o.failed
                   THEN Raise("PackitConfigError") /\ UNCHANGED <<response, package_config>>
                   ELSE /\ package_config' = o.config
                        /\ response' = Triple("commit", o.config, proj)
                        /\ pc' = "respond"
                        /\ UNCHANGED exc
       ELSE /\ pc' = NextClassifier("commit")
            /\ UNCHANGED <<pagure_service, response, package_config, fetched, collab, exc>>
    /\ UNCHANGED <<configVars, registryVars, github_service, dispatchVars, event, topic>>

(***************************************************************************)
(* process_message, lines 224-231                                          *)
(***************************************************************************)
\* all([trigger, package_config, project])
AllPresent(r) == Truthy(r.trigger) /\ ~r.config.is_none /\ r.project # NoProject

process_message_respond ==
    /\ pc = "respond"
    /\ IF response.is_none \/ ~AllPresent(response)
       THEN pc' = "done" /\ UNCHANGED jobIdx
       ELSE pc' = "process_jobs" /\ jobIdx' = 1
    /\ UNCHANGED <<configVars, registryVars, serviceVars, event, topic, response,
                   package_config, handler, parseVars, collab, invoked, returned, warned, exc>>

(***************************************************************************)
(* process_jobs: one iteration of `for job in package_config.jobs`         *)
(***************************************************************************)
\* seeded fault: the declaration's trigger is not compared
Selected_Any(trigger, job) == TRUE
\* line 192
Selected(trigger, job) == trigger = job.trigger
\* line 193
HandlerFor(m, job) == m[job.job]

process_jobs_end ==
    /\ pc = "process_jobs"
    /\ jobIdx > Len(package_config.jobs)
    /\ pc' = "done"
    /\ UNCHANGED <<configVars, registryVars, serviceVars, dispatchVars, event, topic, response,
                   package_config, parseVars, collab, exc>>

process_jobs_skip ==
    /\ pc = "process_jobs"
    /\ jobIdx <= Len(package_config.jobs)
    /\ ~Selected(response.trigger, package_config.jobs[jobIdx])
    /\ jobIdx' = jobIdx + 1
    /\ UNCHANGED <<configVars, registryVars, serviceVars, pc, event, topic, response,
                   package_config, handler, parseVars, collab, invoked, returned, warned, exc>>

\* seeded fault: a missing handler ends the loop (`return` for `continue`)
process_jobs_no_handler_returns ==
    /\ pc = "process_jobs"
    /\ jobIdx <= Len(package_config.jobs)
    /\ Selected(response.trigger, package_config.jobs[jobIdx])
    /\ HandlerFor(mapping, package_config.jobs[jobIdx]) = None
    /\ warned' = Append(warned, jobIdx)
    /\ pc' = "done"
    /\ UNCHANGED <<configVars, registryVars, serviceVars, jobIdx, event, topic, response,
                   package_config, handler, parseVars, collab, invoked, returned, exc>>

\* lines 194-196: no handler, warn and continue
process_jobs_no_handler ==
    /\ pc = "process_jobs"
    /\ jobIdx <= Len(package_config.jobs)
    /\ Selected(response.trigger, package_config.jobs[jobIdx])
    /\ HandlerFor(mapping, package_config.jobs[jobIdx]) = None
    /\ warned' = Append(warned, jobIdx)
    /\ jobIdx' = jobIdx + 1
    /\ UNCHANGED <<configVars, registryVars, serviceVars, pc, event, topic, response,
                   package_config, handler, parseVars, collab, invoked, returned, exc>>

\* job.metadata.get("targets") of a declaration: absent, an empty list or a
\* list of chroots.  Only GithubCoprBuildHandler reads it (lines 380, 396, 406,
\* 422), so the entry is drawn when that handler is constructed with the job.
NoTargets == {None, "[]"}
MetadataTargets(kls) ==
    IF kls = "GithubCoprBuildHandler" THEN NoTargets \cup {"[fedora-rawhide-x86_64]"}
    ELSE {None}

\* lines 197-207: the handler is constructed (both service properties are
\* read) and its run() is entered
process_jobs_run ==
    /\ pc = "process_jobs"
    /\ jobIdx <= Len(package_config.jobs)
    /\ Selected(response.trigger, package_config.jobs[jobIdx])
    /\ HandlerFor(mapping, package_config.jobs[jobIdx]) # None
    /\ \E targets \in MetadataTargets(HandlerFor(mapping, package_config.jobs[jobIdx])) :
        LET h == [kls |-> HandlerFor(mapping, package_config.jobs[jobIdx]),
                  idx |-> jobIdx, trigger |-> response.trigger, targets |-> targets] IN
        /\ handler' = h
        /\ invoked' = Append(invoked, h)
    /\ pagure_service' = PagureServiceProperty
    /\ github_service' = GithubServiceProperty
    /\ pc' = "run"
    /\ UNCHANGED <<configVars, registryVars, event, topic, response, package_config, jobIdx,
                   parseVars, collab, returned, warned, exc>>

(***************************************************************************)
(* The handlers' run()                                                     *)
(***************************************************************************)
\* run() returns to the loop of process_jobs
RunReturns ==
    /\ pc' = "process_jobs"
    /\ jobIdx' = jobIdx + 1
    /\ returned' = returned + 1
    /\ handler' = NoHandler
    /\ UNCHANGED exc

\* seeded fault: process_jobs catches the exception and goes on with the loop
RunRaises_Swallowed(e) ==
    /\ exc' = e
    /\ pc' = "process_jobs"
    /\ jobIdx' = jobIdx + 1
    /\ handler' = NoHandler
    /\ UNCHANGED returned

\* run() raises: process_jobs and process_message do not catch it
RunRaises(e) ==
    /\ Raise(e)
    /\ UNCHANGED <<jobIdx, returned, handler>>

\* what DistGit.get_project_url_from_distgit_spec may answer
SpecfileUrls == {None, "https://github.com/packit-service/packit"}

\* lines 278-304
NewDistGitCommit_run ==
    /\ pc = "run"
    /\ handler.kls = "NewDistGitCommit"
    /\ \E url \in SpecfileUrls, ok \in BOOLEAN :
        /\ package_config' = [package_config EXCEPT !.upstream_project_url = url]
        /\ IF url = None
           THEN /\ ok
                /\ RunRaises("PackitException")
                /\ collab' = Append(collab,
                       Call("get_project_url_from_distgit_spec", response.project, None))
           ELSE /\ collab' = collab \o
                       <<Call("get_project_url_from_distgit_spec", response.project, None),
                         Call("sync_from_downstream",
                              Project("packit-service", "packit", "github"),
                              CommitBranch(event))>>
                /\ IF ok THEN RunReturns ELSE RunRaises("CollaboratorError")
    /\ UNCHANGED <<configVars, registryVars, serviceVars, event, topic, response, parseVars,
                   invoked, warned>>

\* lines 339-350; event["pull_request"]["number"] needs the pull_request object
GithubPullRequestHandler_run ==
    /\ pc = "run"
    /\ handler.kls = "GithubPullRequestHandler"
    /\ IF ~Truthy(event.pull_request)
       THEN RunRaises("KeyError") /\ UNCHANGED collab
       ELSE \E ok \in BOOLEAN :
            /\ collab' = Append(collab, Call("sync_pr", response.project, None))
            /\ IF ok THEN RunReturns ELSE RunRaises("CollaboratorError")
    /\ UNCHANGED <<configVars, registryVars, serviceVars, event, topic, response,
                   package_config, parseVars, invoked, warned>>

\* seeded fault: the handler clears the upstream URL of the shared configuration
GithubReleaseHandler_run_ClearsUrl ==
    /\ pc = "run"
    /\ handler.kls = "GithubReleaseHandler"
    /\ package_config' = [package_config EXCEPT !.upstream_project_url = None]
    /\ IF ~Truthy(TagName(event))
       THEN RunRaises("KeyError") /\ UNCHANGED collab
       ELSE \E ok \in BOOLEAN :
            /\ collab' = Append(collab, Call("sync_release", response.project, TagName(event)))
            /\ IF ok THEN RunReturns ELSE RunRaises("CollaboratorError")
    /\ UNCHANGED <<configVars, registryVars, serviceVars, event, topic, response,
                   parseVars, invoked, warned>>

\* lines 358-371; event["release"]["tag_name"] needs the tag
GithubReleaseHandler_run ==
    /\ pc = "run"
    /\ handler.kls = "GithubReleaseHandler"
    /\ IF ~Truthy(TagName(event))
       THEN RunRaises("KeyError") /\ UNCHANGED collab
       ELSE \E ok \in BOOLEAN :
            /\ collab' = Append(collab, Call("sync_release", response.project, TagName(event)))
            /\ IF ok THEN RunReturns ELSE RunRaises("CollaboratorError")
    /\ UNCHANGED <<configVars, registryVars, serviceVars, event, topic, response,
                   package_config, parseVars, invoked, warned>>

\* api.run_copr_build(..., committish=..., chroots=metadata.get("targets")) and
\* whether it returned
CoprBuild(project, committish, chroots, ok) ==
    [op |-> "run_copr_build", project |-> project, ref |-> committish,
     chroots |-> chroots, returned |-> ok]

\* a status comment, posted through hosting service `service`
Comment(op, project, ref, service) ==
    [op |-> op, project |-> project, ref |-> ref, service |-> service]

\* lines 435-439: the project the pull request targets, on a GithubService built
\* from the token alone (read_only keeps its default, False)
PrTargetService == GithubService(FALSE)
PrTargetProject(e) ==
    IF Truthy(e.pull_request) THEN Project("packit-service", "packit", "github")
    ELSE Project(None, None, "github")

\* seeded fault: a failure of the build request is ignored
AfterBuild_Ignored(ok) == pc' = "report" /\ UNCHANGED <<jobIdx, returned, handler, exc>>

\* api.run_copr_build answered: the handler goes on to the status comment, or
\* the exception leaves run()
AfterBuild(ok) ==
    IF ok
    THEN pc' = "report" /\ UNCHANGED <<jobIdx, returned, handler, exc>>
    ELSE RunRaises("CollaboratorError")

\* seeded fault: run() raises when the declaration names no targets
GithubCoprBuildHandler_run_RequiresTargets ==
    /\ pc = "run"
    /\ handler.kls = "GithubCoprBuildHandler"
    /\ IF handler.trigger \in {"pull_request", "release"} /\ handler.targets \in NoTargets
       THEN RunRaises("PackitException") /\ UNCHANGED collab
       ELSE IF handler.trigger = "pull_request"
       THEN \E ok \in BOOLEAN :
            /\ collab' = Append(collab,
                   CoprBuild(response.project, None, handler.targets, ok))
            /\ AfterBuild(ok)
       ELSE IF handler.trigger = "release"
       THEN IF ~Truthy(event.repository) \/ ~Truthy(TagName(event))
            THEN RunRaises("KeyError") /\ UNCHANGED collab
            ELSE \E ok \in BOOLEAN :
                 /\ collab' = Append(collab,
                        CoprBuild(response.project, TagName(event), handler.targets, ok))
                 /\ AfterBuild(ok)
       ELSE RunReturns /\ UNCHANGED collab
    /\ UNCHANGED <<configVars, registryVars, serviceVars, event, topic, response,
                   package_config, parseVars, invoked, warned>>

\* lines 442-446 with 379-397 and 405-423: up to api.run_copr_build; missing
\* targets are logged (lines 380-383, 406-409) and the build is requested anyway
GithubCoprBuildHandler_run ==
    /\ pc = "run"
    /\ handler.kls = "GithubCoprBuildHandler"
    /\ IF handler.trigger = "pull_request"
       THEN \E ok \in BOOLEAN :
            /\ collab' = Append(collab,
                   CoprBuild(response.project, None, handler.targets, ok))
            /\ AfterBuild(ok)
       ELSE IF handler.trigger = "release"
       THEN IF ~Truthy(event.repository) \/ ~Truthy(TagName(event))
            THEN RunRaises("KeyError") /\ UNCHANGED collab
            ELSE \E ok \in BOOLEAN :
                 /\ collab' = Append(collab,
                        CoprBuild(response.project, TagName(event), handler.targets, ok))
                 /\ AfterBuild(ok)
       ELSE RunReturns /\ UNCHANGED collab
    /\ UNCHANGED <<configVars, registryVars, serviceVars, event, topic, response,
                   package_config, parseVars, invoked, warned>>

\* lines 399-403 and 425-440: the status comment
GithubCoprBuildHandler_report ==
    /\ pc = "report"
    /\ IF handler.trigger = "pull_request"
       THEN IF ~Truthy(event.number)
            THEN RunRaises("KeyError") /\ UNCHANGED collab
            ELSE \E ok \in BOOLEAN :
                 /\ collab' = Append(collab,
                        Comment("pr_comment", PrTargetProject(event), event.number,
                                PrTargetService))
                 /\ IF ok THEN RunReturns ELSE RunRaises("CollaboratorError")
       ELSE \E ok \in BOOLEAN :
            /\ collab' = Append(collab,
                   Comment("commit_comment", response.project, TagName(event),
                           github_service))
            /\ IF ok THEN RunReturns ELSE RunRaises("CollaboratorError")
    /\ UNCHANGED <<configVars, registryVars, serviceVars, event, topic, response,
                   package_config, parseVars, invoked, warned>>

\* process_message has returned or raised; the caller delivers the next message
next_message ==
    /\ pc \in {"done", "raised"}
    /\ pc' = "idle"
    /\ CallReset
    /\ UNCHANGED <<configVars, registryVars, serviceVars>>

Next ==
    \/ add_to_mapping
    \/ loaded
    \/ process_message
    \/ parse_event
    \/ get_job_input_from_github_release
    \/ get_job_input_from_github_pr
    \/ get_job_input_from_dist_git_commit
    \/ process_message_respond
    \/ process_jobs_end
    \/ process_jobs_skip
    \/ process_jobs_no_handler
    \/ process_jobs_run
    \/ NewDistGitCommit_run
    \/ GithubPullRequestHandler_run
    \/ GithubReleaseHandler_run
    \/ GithubCoprBuildHandler_run
    \/ GithubCoprBuildHandler_report
    \/ next_message

Spec == Init /\ [][Next]_vars

\* SteveJobs constructed with a configuration whose dry_run is set
InitDryRun ==
    /\ dry_run = TRUE
    /\ mapping = EmptyMapping
    /\ pending = DecoratedClasses
    /\ github_service = None
    /\ pagure_service = None
    /\ pc = "load"
    /\ event = NoEvent
    /\ topic = None
    /\ response = NoResponse
    /\ package_config = NoneConfig
    /\ jobIdx = 0
    /\ handler = NoHandler
    /\ classified = <<>>
    /\ fetched = <<>>
    /\ collab = <<>>
    /\ invoked = <<>>
    /\ returned = 0
    /\ warned = <<>>
    /\ exc = None

SpecDryRun == InitDryRun /\ [][Next]_vars

\* the registry alone, for any classes a program decorates with @add_to_mapping
InitRegistry ==
    /\ dry_run = FALSE
    /\ mapping = EmptyMapping
    /\ pending \in SeqsUpTo(HandlerClasses, MaxClasses)
    /\ github_service = None
    /\ pagure_service = None
    /\ pc = "load"
    /\ event = NoEvent
    /\ topic = None
    /\ response = NoResponse
    /\ package_config = NoneConfig
    /\ jobIdx = 0
    /\ handler = NoHandler
    /\ classified = <<>>
    /\ fetched = <<>>
    /\ collab = <<>>
    /\ invoked = <<>>
    /\ returned = 0
    /\ warned = <<>>
    /\ exc = None

NextRegistry == add_to_mapping

SpecRegistry == InitRegistry /\ [][NextRegistry]_vars

(***************************************************************************)
(* Properties                                                              *)
(***************************************************************************)
Indices(q) == {i \in 1..Len(q) : TRUE}

ReleaseMatch(e) == ReleaseShape(e) /\ ReleaseFields(e)
PullRequestMatch(e) == PullRequestShape(e) /\ PullRequestFields(e)
CommitMatch(e) == CommitShape(e) /\ CommitFields(e)

\* a process_message call is in progress or has ended
InCall == pc \notin {"load", "idle"}
\* parse_event has not returned yet, has just returned, or raised
InParse ==
    \/ pc \in {"parse_event", "release", "pull_request", "commit", "respond"}
    \/ pc = "raised" /\ invoked = <<>>
\* process_jobs was entered
InDispatch == pc \in {"process_jobs", "run", "report"} \/ (InCall /\ jobIdx > 0)

(* C1: every handler process_jobs has run was given a trigger that its class  *)
(* lists in `triggers`.                                                        *)
C1_HandlerSupportsTrigger ==
    \A i \in Indices(invoked) :
        invoked[i].trigger \in ClassNamed(invoked[i].kls).triggers

(* C2, as stated: for an event whose action is missing or not in a            *)
(* recognized set, parse_event answers no match and no collaborator is called. *)
RecognizedActions == ReleaseActions \cup PullRequestActions

C2_UnrecognizedActionNoMatch ==
    (InParse /\ event.action \notin RecognizedActions) =>
        /\ collab = <<>>
        /\ pc # "raised"
        /\ response.is_none

(* C2, amended: for such an event the release and pull-request classifiers    *)
(* answer no match and no GitHub collaborator is called; parse_event answers   *)
(* no match, with no collaborator call at all, unless the event is a           *)
(* commit-push message (the fixed topic with msg.commit namespace, repo and    *)
(* branch), which the commit-push classifier matches whatever the action is.   *)
C2_UnrecognizedActionOnlyCommit ==
    (InParse /\ event.action \notin RecognizedActions) =>
        /\ \A i \in Indices(collab) : collab[i].project.service = "pagure"
        /\ ~response.is_none => response.trigger = "commit"
        /\ ~CommitMatch(event) =>
              /\ collab = <<>>
              /\ pc # "raised"
              /\ response.is_none
        /\ (pc = "respond" /\ CommitMatch(event)) => ~response.is_none

C2_Witness ==
    /\ pc = "respond"
    /\ event.action = "closed"
    /\ event.release = "tagged" /\ event.repository = "full"
    /\ event.pull_request = "full" /\ event.number # None
    /\ classified = <<"release", "pull_request", "commit">>
    /\ response.is_none
    /\ collab = <<>>

(* C3, as stated: an event that passes the required-field checks of both the  *)
(* release and the pull-request classifier is routed to the Release result.    *)
ReleaseRequiredFields(e) == Truthy(e.release) /\ ReleaseFields(e)
PullRequestRequiredFields(e) ==
    Truthy(e.pull_request) /\ Truthy(e.number) /\ PullRequestFields(e)

C3_BothFieldChecksGiveRelease ==
    (/\ pc = "respond"
     /\ ~response.is_none
     /\ ReleaseRequiredFields(event)
     /\ PullRequestRequiredFields(event)) => response.trigger = "release"

(* C3, amended: parse_event enters the classifiers in the order release,      *)
(* pull-request, commit-push, stops at the first that matches and returns its  *)
(* result.  No event matches both the release and the pull-request classifier  *)
(* (they require different actions): an event carrying the required fields of  *)
(* both is routed by its action.  An event that matches the commit-push        *)
(* classifier and an earlier one is routed to the earlier one.                 *)
ClassifierOrder == <<"release", "pull_request", "commit">>

FirstMatch(e) ==
    IF e.empty THEN None
    ELSE IF ReleaseMatch(e) THEN "release"
    ELSE IF PullRequestMatch(e) THEN "pull_request"
    ELSE IF CommitMatch(e) THEN "commit"
    ELSE None

C3_FirstMatchInOrder ==
    InCall =>
        /\ Len(classified) <= Len(ClassifierOrder)
        /\ \A i \in Indices(classified) : classified[i] = ClassifierOrder[i]
        /\ ~(ReleaseMatch(event) /\ PullRequestMatch(event))
        /\ (pc = "respond") =>
              /\ response.trigger = FirstMatch(event)
              /\ ~response.is_none => classified[Len(classified)] = response.trigger
              /\ (response.is_none /\ ~event.empty) => classified = ClassifierOrder
        /\ (pc = "respond" /\ ~response.is_none /\ ReleaseRequiredFields(event)
              /\ PullRequestRequiredFields(event)) =>
              /\ event.action \in ReleaseActions => response.trigger = "release"
              /\ event.action \in PullRequestActions => response.trigger = "pull_request"

C3_Witness ==
    /\ pc = "respond"
    /\ ReleaseMatch(event)
    /\ PullRequestRequiredFields(event)
    /\ CommitMatch(event)
    /\ classified = <<"release">>
    /\ response.trigger = "release"

(* C4: with collaborators that do not fail, the classifiers and parse_event   *)
(* never raise because a field of the payload is absent.                       *)
C4_AbsentFieldNeverRaises ==
    ~(pc = "raised" /\ invoked = <<>> /\ exc = "KeyError")

(* C5: process_jobs runs, once each and in declared order, exactly the        *)
(* declarations whose trigger equals the classified trigger and whose job type *)
(* has a registered handler; a handler starts only after the one before it has *)
(* returned.                                                                   *)
IndexSeq(n) == [i \in 1..n |-> i]

ExpectedRuns(trigger, jobs, m) ==
    LET Runs(i) == jobs[i].trigger = trigger /\ m[jobs[i].job] # None
    IN SelectSeq(IndexSeq(Len(jobs)), Runs)

C5_DispatchSelectionAndOrder ==
    InDispatch =>
        LET jobs == response.config.jobs
            exp == ExpectedRuns(response.trigger, jobs, mapping)
        IN /\ Len(invoked) <= Len(exp)
           /\ \A k \in Indices(invoked) :
                /\ invoked[k].idx = exp[k]
                /\ invoked[k].kls = mapping[jobs[exp[k]].job]
                /\ invoked[k].trigger = response.trigger
                /\ jobs[invoked[k].idx].trigger = response.trigger
           /\ pc = "done" => Len(invoked) = Len(exp) /\ returned = Len(exp)
           /\ pc = "process_jobs" => returned = Len(invoked)
           /\ pc \in {"run", "report"} => returned + 1 = Len(invoked)
           /\ pc = "raised" => returned + 1 = Len(invoked)

C5_Witness ==
    /\ pc = "done"
    /\ response.trigger = "release"
    /\ response.config.jobs =
          <<[job |-> "propose_downstream", trigger |-> "release"],
            [job |-> "check_downstream", trigger |-> "pull_request"],
            [job |-> "copr_build", trigger |-> "release"]>>
    /\ Len(invoked) = 2
    /\ invoked[1].idx = 1 /\ invoked[1].kls = "GithubReleaseHandler"
    /\ invoked[2].idx = 3 /\ invoked[2].kls = "GithubCoprBuildHandler"
    /\ returned = 2

(* C6: a matching declaration without a registered handler is warned about    *)
(* and passed over; it raises nothing, and every later matching declaration    *)
(* with a registered handler has its handler run.                              *)
C6_MissingHandlerDoesNotStopDispatch ==
    InDispatch =>
        LET jobs == response.config.jobs IN
        /\ \A i \in Indices(jobs) :
              (/\ jobs[i].trigger = response.trigger
               /\ mapping[jobs[i].job] = None
               /\ (i < jobIdx \/ pc = "done")) =>
                  /\ \E k \in Indices(warned) : warned[k] = i
                  /\ \A n \in Indices(invoked) : invoked[n].idx # i
        /\ \A k \in Indices(warned) :
              /\ mapping[jobs[warned[k]].job] = None
              /\ \A i \in (warned[k] + 1)..Len(jobs) :
                    (/\ jobs[i].trigger = response.trigger
                     /\ mapping[jobs[i].job] # None
                     /\ (i < jobIdx \/ pc = "done")) =>
                        \E n \in Indices(invoked) : invoked[n].idx = i
        /\ pc = "raised" => handler # NoHandler

C6_Witness ==
    /\ pc = "done"
    /\ response.config.jobs =
          <<[job |-> "build", trigger |-> "release"],
            [job |-> "propose_downstream", trigger |-> "release"]>>
    /\ response.trigger = "release"
    /\ warned = <<1>>
    /\ Len(invoked) = 1 /\ invoked[1].idx = 2
    /\ returned = 1

(* C7: a call with a (non-empty) topic that no registered handler declares     *)
(* returns at once: no classifier runs, no collaborator is called, no handler  *)
(* is run, whatever the payload.                                               *)
C7_TopicPrefilter ==
    (InCall /\ Truthy(topic) /\ topic \notin RegisteredTopics(mapping)) =>
        /\ pc = "done"
        /\ classified = <<>>
        /\ collab = <<>>
        /\ invoked = <<>>
        /\ response.is_none
        /\ exc = None

C7_Witness ==
    /\ pc = "done"
    /\ topic = "unrelated.topic"
    /\ event = ReleasePayload
    /\ classified = <<>>
    /\ collab = <<>>

(* C8, as stated: a classifier returns no match or a triple whose three        *)
(* components are all non-null.                                                *)
C8_TripleFullyPopulated ==
    (pc = "respond" /\ ~response.is_none) => AllPresent(response)

(* C8, amended: a classifier returns no match or a triple whose trigger and    *)
(* project handle are non-null; the configuration is non-null in every triple  *)
(* of the release and pull-request classifiers, while the commit-push          *)
(* classifier returns the configuration as fetched, None included.             *)
C8_TripleNullOnlyCommitConfig ==
    (pc = "respond" /\ ~response.is_none) =>
        /\ response.trigger \in JobTriggerType
        /\ response.project # NoProject
        /\ Truthy(response.project.namespace) /\ Truthy(response.project.repo)
        /\ response.trigger \in {"release", "pull_request"} => ~response.config.is_none
        /\ response.config.is_none => response.trigger = "commit"

C8_Witness ==
    /\ pc = "respond"
    /\ ~response.is_none
    /\ response.trigger = "commit"
    /\ response.config.is_none
    /\ response.project = Project("rpms", "packit", "pagure")

(* C9, as stated: after any handler's run() the configuration equals the one   *)
(* the classifier returned (looked at in dispatches where every handler was    *)
(* run for a trigger it lists).                                                *)
C9_ConfigNeverMutated ==
    (InCall /\ ~response.is_none /\ C1_HandlerSupportsTrigger) =>
        package_config = response.config

(* C9, amended: no handler changes the job declarations of the configuration,  *)
(* and the pull-request, release and build handlers leave it unchanged; the    *)
(* commit-sync handler (NewDistGitCommit.run) sets upstream_project_url to the *)
(* URL of the dist-git spec file, so a later handler of the same dispatch sees *)
(* that URL.                                                                   *)
C9_OnlyCommitSyncSetsUrl ==
    (InCall /\ ~response.is_none) =>
        /\ package_config.jobs = response.config.jobs
        /\ package_config.is_none = response.config.is_none
        /\ package_config # response.config =>
              /\ \E k \in Indices(invoked) : invoked[k].kls = "NewDistGitCommit"
              /\ package_config.upstream_project_url \in SpecfileUrls

C9_Witness ==
    /\ pc = "run"
    /\ Len(invoked) = 2
    /\ invoked[1].kls = "NewDistGitCommit"
    /\ invoked[2].kls = "NewDistGitCommit"
    /\ returned = 1
    /\ response.config.upstream_project_url = None
    /\ package_config.upstream_project_url = "https://github.com/packit-service/packit"
    /\ package_config.jobs = response.config.jobs

(* C10: registering a second handler class for a job type that already has     *)
(* one is logged or rejected, never a silent replacement of the entry.         *)
C10_DuplicateRegistrationSignalled ==
    [][(/\ pc = "load"
        /\ pending # <<>>
        /\ pending' = Tail(pending)
        /\ mapping[Head(pending).name] \notin {None, Head(pending).kls})
       => (warned' # warned \/ exc' # None \/ mapping' = mapping)]_vars

\* parse_event has returned or raised, and nothing has run since
ParseEnded == pc = "respond" \/ (pc = "raised" /\ invoked = <<>>)
\* the one configuration fetch of this call answered a configuration
FetchedConfig == Len(fetched) = 1 /\ ~fetched[1].failed /\ ~fetched[1].config.is_none
\* lines 88 and 124: the fetched configuration with the repository URL set
Enriched(config, e) == [config EXCEPT !.upstream_project_url = HtmlUrl(e)]

(* C11: for a release payload with action "published", a release with a tag   *)
(* name, repository.owner.login and repository.name (and the                   *)
(* repository.html_url the result is to carry), the classifier builds the      *)
(* project handle of that repository and fetches the configuration at the tag; *)
(* when the fetch answers a configuration, parse_event returns (release,       *)
(* config, handle) where config is the fetched configuration with              *)
(* upstream_project_url set to repository.html_url.                            *)
C11_ReleaseClassified ==
    (ParseEnded /\ ReleaseMatch(event) /\ HasHtmlUrl(event)) =>
        LET proj == Project(RepoNamespace(event), RepoName(event), "github") IN
        /\ classified = <<"release">>
        /\ Len(fetched) = 1
        /\ collab = <<Call("GithubProject", proj, None),
                      Call("get_packit_config_from_repo", proj, TagName(event))>>
        /\ FetchedConfig =>
              /\ pc = "respond"
              /\ response = Triple("release", Enriched(fetched[1].config, event), proj)
              /\ response.config.upstream_project_url = HtmlUrl(event)
              /\ package_config = response.config

C11_Witness ==
    /\ pc = "respond"
    /\ event = ReleasePayload
    /\ response.trigger = "release"
    /\ response.project = Project("packit-service", "packit", "github")
    /\ Len(response.config.jobs) = 2
    /\ response.config.upstream_project_url = HtmlUrl(event)
    /\ collab[2].ref = "0.1.0"

(* C12: for a pull-request payload with the head repository's owner login and  *)
(* name, the head ref and a number (and the repository.html_url of the         *)
(* result), parse_event returns (pull_request, config, handle) when the action *)
(* is opened, reopened or synchronize and the fetch at the head ref answers a  *)
(* configuration.  With any other action the pull-request classifier does not  *)
(* match and fetches nothing, and parse_event answers no match with no         *)
(* configuration fetch, the payload being no release or commit-push message.   *)
C12_PullRequestClassified ==
    (ParseEnded /\ PullRequestRequiredFields(event)) =>
        LET proj == Project(HeadNamespace(event), HeadName(event), "github") IN
        /\ (event.action \in PullRequestActions /\ HasHtmlUrl(event)) =>
              /\ classified = <<"release", "pull_request">>
              /\ Len(fetched) = 1
              /\ collab = <<Call("GithubProject", proj, None),
                            Call("get_packit_config_from_repo", proj, HeadRef(event))>>
              /\ FetchedConfig =>
                    /\ pc = "respond"
                    /\ response =
                           Triple("pull_request", Enriched(fetched[1].config, event), proj)
        /\ event.action \notin PullRequestActions =>
              /\ response.trigger # "pull_request"
              /\ \A i \in Indices(collab) : collab[i].project # proj
              /\ (~ReleaseMatch(event) /\ ~CommitMatch(event)) =>
                    /\ pc = "respond"
                    /\ response.is_none
                    /\ fetched = <<>>
                    /\ collab = <<>>

C12_Witness ==
    /\ pc = "respond"
    /\ event = PullRequestPayload
    /\ response.trigger = "pull_request"
    /\ response.project = Project("contributor", "packit", "github")
    /\ Len(response.config.jobs) = 2
    /\ collab[2].ref = "feature"

C12_WitnessClosed ==
    /\ pc = "respond"
    /\ event = [PullRequestPayload EXCEPT !.action = "closed"]
    /\ classified = ClassifierOrder
    /\ response.is_none
    /\ fetched = <<>>

(* C13: classification is deterministic.  What parse_event answers is a       *)
(* function of the payload and of what the configuration collaborator         *)
(* answered, and of nothing else: in every reachable state, whatever messages  *)
(* were processed before and whether or not the service objects are cached     *)
(* already, the result (or the exception) is the one ParseResult (ParseRaises) *)
(* computes from these two inputs.  Two calls on an identical payload with an  *)
(* identical configuration therefore give equal trigger, configuration and     *)
(* project identity.                                                           *)
ParseResult(e, f) ==
    CASE FirstMatch(e) = "release" ->
            Triple("release", Enriched(f[1].config, e),
                   Project(RepoNamespace(e), RepoName(e), "github"))
      [] FirstMatch(e) = "pull_request" ->
            Triple("pull_request", Enriched(f[1].config, e),
                   Project(HeadNamespace(e), HeadName(e), "github"))
      [] FirstMatch(e) = "commit" ->
            Triple("commit", f[1].config,
                   Project(CommitNamespace(e), CommitRepo(e), "pagure"))
      [] OTHER -> NoResponse

ParseRaises(e, f) ==
    IF FirstMatch(e) = None THEN None
    ELSE IF f[1].failed THEN "PackitConfigError"
    ELSE IF FirstMatch(e) = "commit" THEN None
    ELSE IF ~HasHtmlUrl(e) THEN "KeyError"
    ELSE IF f[1].config.is_none THEN "AttributeError"
    ELSE None

C13_ClassificationDeterministic ==
    ParseEnded =>
        /\ Len(fetched) = (IF FirstMatch(event) = None THEN 0 ELSE 1)
        /\ exc = ParseRaises(event, fetched)
        /\ (pc = "raised") = (exc # None)
        /\ pc = "respond" => response = ParseResult(event, fetched)

\* a payload classified by a dispatcher that has processed messages before:
\* only an earlier GitHub event or dispatch creates the cached GitHub service
C13_Witness ==
    /\ pc = "respond"
    /\ event = CommitPayload
    /\ github_service # None
    /\ pagure_service # None
    /\ response.trigger = "commit"
    /\ response.project = Project("rpms", "packit", "pagure")
    /\ Len(response.config.jobs) = 1

\* a handler's run() has raised during this call
HandlerFailed == InCall /\ exc # None /\ invoked # <<>>
\* declaration i matches the classified trigger and has a registered handler
Dispatchable(i) ==
    /\ response.config.jobs[i].trigger = response.trigger
    /\ mapping[response.config.jobs[i].job] # None

(* C14: an exception raised by a handler's run() is not caught by the         *)
(* dispatcher: it ends process_jobs and process_message at once and reaches    *)
(* the caller.  By then the handler of every matching declaration ordered      *)
(* before the failing one has been run and has returned.                       *)
C14_FailurePropagates ==
    InCall =>
        /\ (exc # None) = (pc = "raised")
        /\ HandlerFailed =>
              /\ handler = invoked[Len(invoked)]
              /\ jobIdx = handler.idx
              /\ returned = Len(invoked) - 1
              /\ \A i \in 1..(handler.idx - 1) :
                    Dispatchable(i) =>
                        \E k \in 1..returned : invoked[k].idx = i

C14_Witness ==
    /\ pc = "raised"
    /\ exc = "CollaboratorError"
    /\ response.trigger = "release"
    /\ response.config.jobs =
          <<[job |-> "propose_downstream", trigger |-> "release"],
            [job |-> "copr_build", trigger |-> "release"]>>
    /\ Len(invoked) = 2
    /\ returned = 1
    /\ handler.kls = "GithubCoprBuildHandler"

(* C15, as stated: when the handler of one matching declaration fails, the    *)
(* handlers of the other matching declarations, the later ones included, are   *)
(* still invoked.                                                              *)
C15_FailureDoesNotCancelSiblings ==
    (HandlerFailed /\ pc = "raised") =>
        \A i \in Indices(response.config.jobs) :
            Dispatchable(i) => \E k \in Indices(invoked) : invoked[k].idx = i

(* C15, amended: when the handler of one matching declaration fails, the      *)
(* handlers of the matching declarations ordered before it have been invoked   *)
(* already, and those of the matching declarations ordered after it are never  *)
(* invoked: the failing handler is the last one the call runs.                 *)
C15_FailureCancelsLaterSiblings ==
    HandlerFailed =>
        /\ Len(invoked) = returned + 1
        /\ \A i \in Indices(response.config.jobs) :
              Dispatchable(i) =>
                  ((\E k \in Indices(invoked) : invoked[k].idx = i)
                      = (i <= invoked[returned + 1].idx))

C15_Witness ==
    /\ pc = "raised"
    /\ response.trigger = "release"
    /\ response.config.jobs =
          <<[job |-> "propose_downstream", trigger |-> "release"],
            [job |-> "copr_build", trigger |-> "release"]>>
    /\ Len(invoked) = 1
    /\ invoked[1].kls = "GithubReleaseHandler"
    /\ returned = 0

\* the configuration fetches among the collaborator calls of this call
ConfigFetches == {i \in Indices(collab) : collab[i].op = "get_packit_config_from_repo"}

(* C16: parse_event short-circuits.  Once a classifier has matched (it        *)
(* returned a result or raised), no later classifier is entered; one           *)
(* parse_event call fetches a project configuration at most once, exactly when *)
(* a classifier matches, and an empty payload reaches no classifier and        *)
(* fetches nothing.                                                            *)
C16_RouterShortCircuits ==
    InCall =>
        /\ Cardinality(ConfigFetches) <= 1
        /\ Len(fetched) = Cardinality(ConfigFetches)
        /\ event.empty => (classified = <<>> /\ ConfigFetches = {})
        /\ ConfigFetches # {} =>
              /\ classified # <<>>
              /\ classified[Len(classified)] = FirstMatch(event)
              /\ \A i \in 1..(Len(classified) - 1) : classified[i] # FirstMatch(event)
        /\ (pc = "respond" /\ ~response.is_none) =>
              /\ ConfigFetches # {}
              /\ classified[Len(classified)] = response.trigger

\* a payload all three classifiers would match: only the first is entered
C16_Witness ==
    /\ pc = "respond"
    /\ event.action = "published"
    /\ ReleaseMatch(event) /\ PullRequestRequiredFields(event) /\ CommitMatch(event)
    /\ classified = <<"release">>
    /\ Len(fetched) = 1
    /\ Cardinality(ConfigFetches) = 1
    /\ ~response.is_none

\* the runs of the build-trigger handler for a trigger it handles, the build
\* requests and the status comments of this call, each in order
IsCoprRun(h) ==
    h.kls = "GithubCoprBuildHandler" /\ h.trigger \in {"pull_request", "release"}
IsBuild(c) == c.op = "run_copr_build"
IsComment(c) == c.op \in {"pr_comment", "commit_comment"}
CoprRuns == SelectSeq(invoked, IsCoprRun)
BuildCalls == SelectSeq(collab, IsBuild)
Comments == SelectSeq(collab, IsComment)
\* how many of CoprRuns have got as far as the build request, and how many
\* have returned
CoprRunsStarted ==
    IF pc = "run" /\ IsCoprRun(handler) THEN Len(CoprRuns) - 1 ELSE Len(CoprRuns)
CoprRunsReturned ==
    IF pc \in {"run", "report", "raised"} /\ IsCoprRun(handler)
    THEN Len(CoprRuns) - 1 ELSE Len(CoprRuns)

(* C17: the build-trigger handler does not abort when the declaration's       *)
(* `targets` metadata is absent or empty, for the release and the pull-request *)
(* trigger alike: every run of the handler requests the build, passing the     *)
(* targets as the declaration gives them (absent or empty included), a run     *)
(* ends with no exception but a collaborator's or that of a missing payload    *)
(* field, and every run that returned has posted its status comment after its  *)
(* build request.                                                              *)
C17_MissingTargetsStillBuilds ==
    InDispatch =>
        /\ Len(BuildCalls) = CoprRunsStarted
        /\ \A j \in Indices(BuildCalls) :
              /\ BuildCalls[j].chroots = CoprRuns[j].targets
              /\ BuildCalls[j].project = response.project
        /\ (pc = "raised" /\ IsCoprRun(handler)) => exc \in {"CollaboratorError", "KeyError"}
        /\ CoprRunsReturned <= Len(Comments)
        /\ Len(Comments) <= Len(BuildCalls)
        /\ \A i \in Indices(collab) :
              IsComment(collab[i]) => (i > 1 /\ IsBuild(collab[i - 1]))

C17_Witness ==
    /\ pc = "done"
    /\ response.trigger = "pull_request"
    /\ Len(invoked) = 1
    /\ invoked[1].kls = "GithubCoprBuildHandler"
    /\ invoked[1].targets = None
    /\ returned = 1
    /\ Len(collab) = 4
    /\ collab[3].op = "run_copr_build" /\ collab[3].chroots = None
    /\ collab[4].op = "pr_comment"

C17_WitnessRelease ==
    /\ pc = "done"
    /\ response.trigger = "release"
    /\ Len(invoked) = 1
    /\ invoked[1].kls = "GithubCoprBuildHandler"
    /\ invoked[1].targets = "[]"
    /\ returned = 1
    /\ Len(collab) = 4
    /\ collab[3].op = "run_copr_build" /\ collab[3].chroots = "[]"
    /\ collab[4].op = "commit_comment"

(* C18: with config.dry_run set, every hosting-service object the dispatcher  *)
(* or a handler constructs and uses is read-only: the two cached services and  *)
(* the service each status comment is posted through.                          *)
C18_DryRunHonoured ==
    dry_run =>
        /\ github_service # None => ReadOnly(github_service)
        /\ pagure_service # None => ReadOnly(pagure_service)
        /\ \A i \in Indices(collab) :
              IsComment(collab[i]) => ReadOnly(collab[i].service)

(* C18, the part the code keeps: the services the dispatcher caches, and the   *)
(* commit comment posted through the cached GitHub service, follow dry_run.    *)
C18_CachedServicesFollowDryRun ==
    /\ github_service # None => (ReadOnly(github_service) = dry_run)
    /\ pagure_service # None => (ReadOnly(pagure_service) = dry_run)
    /\ \A i \in Indices(collab) :
          collab[i].op = "commit_comment" => (ReadOnly(collab[i].service) = dry_run)

(* C19: the build-trigger handler posts its status comment only after its     *)
(* build request has returned: every comment directly follows a build request  *)
(* that returned, a build request that failed is the last collaborator call of *)
(* the process_message call and no comment follows it, and a run for a trigger *)
(* that is neither pull_request nor release calls no collaborator at all.      *)
C19_CommentOnlyAfterBuild ==
    InCall =>
        /\ \A i \in Indices(collab) :
              /\ IsComment(collab[i]) =>
                    (i > 1 /\ IsBuild(collab[i - 1]) /\ collab[i - 1].returned)
              /\ (IsBuild(collab[i]) /\ ~collab[i].returned) =>
                    (i = Len(collab) /\ pc = "raised" /\ exc = "CollaboratorError")
              /\ (IsBuild(collab[i]) /\ i < Len(collab)) => IsComment(collab[i + 1])
        /\ pc = "report" => (IsBuild(collab[Len(collab)]) /\ collab[Len(collab)].returned)
        /\ Len(BuildCalls) <= Len(CoprRuns)
        /\ (\A k \in Indices(invoked) :
                invoked[k].kls = "GithubCoprBuildHandler" /\ ~IsCoprRun(invoked[k])) =>
              (\A i \in Indices(collab) :
                  collab[i].op \in {"GithubProject", "PagureService.get_project",
                                    "get_packit_config_from_repo"})

\* the build request failed: no comment
C19_Witness ==
    /\ pc = "raised"
    /\ exc = "CollaboratorError"
    /\ handler.kls = "GithubCoprBuildHandler"
    /\ handler.trigger = "release"
    /\ Len(collab) = 3
    /\ IsBuild(collab[3]) /\ ~collab[3].returned
    /\ Comments = <<>>

\* a run for the commit trigger: the handler returns without any call
C19_WitnessOtherTrigger ==
    /\ pc = "done"
    /\ response.trigger = "commit"
    /\ Len(invoked) = 1
    /\ invoked[1].kls = "GithubCoprBuildHandler"
    /\ returned = 1
    /\ Len(collab) = 2

(* C20: when the configuration fetch for a recognized event answers None (the *)
(* project has no packit configuration), process_message returns normally: it  *)
(* raises nothing and runs no handler.  (Stated for GitHub payloads that carry *)
(* repository.html_url, so that no other exception is in the way.)             *)
FetchedNone == Len(fetched) = 1 /\ ~fetched[1].failed /\ fetched[1].config.is_none

C20_NoConfigReturnsNormally ==
    (InCall /\ FetchedNone /\ (FirstMatch(event) = "commit" \/ HasHtmlUrl(event))) =>
        (pc # "raised" /\ exc = None /\ invoked = <<>>)

(* C20, the part the code keeps: a commit-push message of a project without    *)
(* configuration is dropped by process_message without a handler run.          *)
C20_NoConfigCommitDropped ==
    (InCall /\ FetchedNone /\ FirstMatch(event) = "commit") =>
        (pc \in {"respond", "done"} /\ exc = None /\ invoked = <<>> /\ jobIdx = 0)

====
